---------------------------- MODULE Spec2Model ----------------------------
(***************************************************************************)
(* Model of the MindMap question pipeline:                                 *)
(*   scripts/parse_questions.py       (segmenter, chunk parser, id)        *)
(*   scripts/enrich_clinical_facts.py (pattern loader, entity annotator)   *)
(*                                                                         *)
(* Text is a sequence of characters.  A character is a one-letter string;  *)
(* the non-ASCII characters the sources use are written by name:           *)
(*   "U2500" is the box-drawing dash of the delimiter regex,               *)
(*   "AACUTE"/"aacute" and "IACUTE"/"iacute" are the accented letters of   *)
(*   the metadata keys.                                                    *)
(***************************************************************************)
EXTENDS Integers, Sequences, FiniteSets, TLC

VARIABLES
    question,      \* enrich: the question dict passed to enrich_question
    patterns,      \* enrich: the loaded pattern list (templates are mutable dicts)
    calls,         \* enrich: number of enrich_question calls made so far
    prevEntities,  \* enrich: clinical_entities as read by the latest call
    origin,        \* enrich: <<pattern index, match start>> of each entity the latest call appended
    initial,       \* enrich: the question and the patterns as they were before the first call
    chunk,         \* parse: the block handed to parse_chunk
    result,        \* parse: what parse_chunk returned or raised
    given,         \* parse: the label and number the header line was written with
    pc,            \* run: position of main() in either script
    input,         \* run: the files the script reads
    idx,           \* run: how many items the current loop has processed
    lists,         \* run: the lists built so far (chunks, questions, patterns, enriched)
    output,        \* run: the output file, Nothing until write_text
    blocks,        \* segment: the blocks the document is built from
    delims,        \* segment: the delimiters between them
    segmented      \* segment: what the segmenter returned

enrichVars == <<question, patterns, calls, prevEntities, origin, initial>>
parseVars == <<chunk, result, given>>
runVars == <<pc, input, idx, lists, output>>
segVars == <<blocks, delims, segmented>>
vars == <<enrichVars, parseVars, runVars, segVars>>

-----------------------------------------------------------------------------
(* Characters and strings *)

NL == "\n"

UpperLetters == <<"A","B","C","D","E","F","G","H","I","J","K","L","M","N","O","P","Q","R","S","T","U","V","W","X","Y","Z","AACUTE","IACUTE">>

LowerLetters == <<"a","b","c","d","e","f","g","h","i","j","k","l","m","n","o","p","q","r","s","t","u","v","w","x","y","z","aacute","iacute">>

Digits == <<"0","1","2","3","4","5","6","7","8","9">>

Range(s) == {s[i] : i \in 1..Len(s)}

IndexIn(c, s) == CHOOSE i \in 1..Len(s) : s[i] = c

IsUpper(c) == c \in Range(UpperLetters)

IsLower(c) == c \in Range(LowerLetters)

IsDigit(c) == c \in Range(Digits)

IsSpace(c) == c \in {" ", "\t", "\n"}

LowerChar(c) == IF IsUpper(c) THEN LowerLetters[IndexIn(c, UpperLetters)] ELSE c

UpperChar(c) == IF IsLower(c) THEN UpperLetters[IndexIn(c, LowerLetters)] ELSE c

Lower(s) == [i \in 1..Len(s) |-> LowerChar(s[i])]

Upper(s) == [i \in 1..Len(s) |-> UpperChar(s[i])]

StartsWith(s, p) == Len(s) >= Len(p) /\ SubSeq(s, 1, Len(p)) = p

IsPrefix(p, s) == StartsWith(s, p)

RECURSIVE LStrip(_)
LStrip(s) == IF s # <<>> /\ IsSpace(Head(s)) THEN LStrip(Tail(s)) ELSE s

RECURSIVE RStrip(_)
RStrip(s) == IF s # <<>> /\ IsSpace(s[Len(s)]) THEN RStrip(SubSeq(s, 1, Len(s) - 1)) ELSE s

Strip(s) == LStrip(RStrip(s))

RECURSIVE Join(_, _)
Join(sep, parts) ==
    IF parts = <<>> THEN <<>>
    ELSE IF Len(parts) = 1 THEN parts[1]
    ELSE parts[1] \o sep \o Join(sep, Tail(parts))

RECURSIVE Concat(_)
Concat(parts) == IF parts = <<>> THEN <<>> ELSE Head(parts) \o Concat(Tail(parts))

RECURSIVE Repeat(_, _)
Repeat(s, n) == IF n = 0 THEN <<>> ELSE s \o Repeat(s, n - 1)

SeqsUpTo(S, n) == UNION {[1..k -> S] : k \in 0..n}

\* Number of leading characters of s, from position i on, that are in set S.
RECURSIVE SpanIn(_, _, _)
SpanIn(s, i, S) == IF i <= Len(s) /\ s[i] \in S THEN 1 + SpanIn(s, i + 1, S) ELSE 0

\* Number of leading characters of s, from position i on, that are not in S.
RECURSIVE SpanNotIn(_, _, _)
SpanNotIn(s, i, S) == IF i <= Len(s) /\ s[i] \notin S THEN 1 + SpanNotIn(s, i + 1, S) ELSE 0

Spaces == {" ", "\t", NL}

From(s, i) == SubSeq(s, i, Len(s))

\* str.splitlines() on text whose only line break is "\n".
RECURSIVE SplitLines(_)
SplitLines(s) ==
    IF s = <<>> THEN <<>>
    ELSE LET n == SpanNotIn(s, 1, {NL})
         IN  <<SubSeq(s, 1, n)>> \o SplitLines(From(s, n + 2))

\* str.split(): the maximal runs of non-whitespace.
RECURSIVE SplitWS(_)
SplitWS(s) ==
    LET t == LStrip(s)
        n == SpanNotIn(t, 1, Spaces)
    IN  IF t = <<>> THEN <<>> ELSE <<SubSeq(t, 1, n)>> \o SplitWS(From(t, n + 1))

DigitValue(c) == IndexIn(c, Digits) - 1

RECURSIVE DigitsToInt(_)
DigitsToInt(s) == IF s = <<>> THEN 0 ELSE 10 * DigitsToInt(SubSeq(s, 1, Len(s) - 1)) + DigitValue(s[Len(s)])

RECURSIVE NatToStr(_)
NatToStr(n) == IF n < 10 THEN <<Digits[n + 1]>> ELSE NatToStr(n \div 10) \o <<Digits[(n % 10) + 1]>>

\* str(n)
IntToStr(n) == IF n < 0 THEN <<"-">> \o NatToStr(0 - n) ELSE NatToStr(n)

\* int(token): an optional sign and decimal digits; ok = FALSE stands for ValueError.
IntParse(tok) ==
    LET signed == tok # <<>> /\ tok[1] \in {"+", "-"}
        body == IF signed THEN Tail(tok) ELSE tok
    IN  IF body # <<>> /\ \A i \in 1..Len(body) : IsDigit(body[i])
        THEN [ok |-> TRUE, value |-> IF signed /\ tok[1] = "-" THEN 0 - DigitsToInt(body) ELSE DigitsToInt(body)]
        ELSE [ok |-> FALSE, value |-> 0]

\* Code-point order of the characters the model uses.
CharOrder == <<"\t", NL, " ", "(", ")", "+", "-">> \o Digits \o <<":">> \o SubSeq(UpperLetters, 1, 26)
             \o SubSeq(LowerLetters, 1, 26) \o <<"AACUTE", "IACUTE", "aacute", "iacute", "U2500">>

CodePoint(c) == IndexIn(c, CharOrder)

RECURSIVE StrLess(_, _)
StrLess(a, b) ==
    IF b = <<>> THEN FALSE
    ELSE IF a = <<>> THEN TRUE
    ELSE IF a[1] = b[1] THEN StrLess(Tail(a), Tail(b))
    ELSE CodePoint(a[1]) < CodePoint(b[1])

\* sorted(set of strings)
RECURSIVE Sorted(_)
Sorted(S) ==
    IF S = {} THEN <<>>
    ELSE LET least == CHOOSE x \in S : \A y \in S \ {x} : StrLess(x, y)
         IN  <<least>> \o Sorted(S \ {least})

-----------------------------------------------------------------------------
(* Regular expressions of the pattern file.  A source is a sequence of      *)
(* tokens: a literal character, "\\d", "(", ")" and "?" (after a group).    *)
(* The sources drawn have at most one group; re.compile rejects the ones    *)
(* with unbalanced parentheses or a dangling "?".                           *)

\* Optional values: Nothing is Python's None, Some(x) a value that is there.
Nothing == <<>>

Some(x) == <<x>>

Positions(src, tok) == {i \in 1..Len(src) : src[i] = tok}

\* One token under re.IGNORECASE: the set of characters it accepts.
ClassOf(tok) == IF tok = "\\d" THEN Range(Digits) ELSE {LowerChar(tok), UpperChar(tok)}

Classes(src) == [i \in 1..Len(src) |-> ClassOf(src[i])]

NoRegex == [valid |-> FALSE, pre |-> <<>>, grp |-> <<>>, post |-> <<>>, groups |-> 0, optional |-> FALSE]

\* re.compile(source, re.IGNORECASE); valid = FALSE stands for re.error.
Compile(src) ==
    LET opens == Positions(src, "(")
        closes == Positions(src, ")")
        marks == Positions(src, "?")
    IN  IF opens = {} /\ closes = {} /\ marks = {}
        THEN [valid |-> TRUE, pre |-> Classes(src), grp |-> <<>>, post |-> <<>>,
              groups |-> 0, optional |-> FALSE]
        ELSE IF Cardinality(opens) = 1 /\ Cardinality(closes) = 1
        THEN LET i == CHOOSE x \in opens : TRUE
                 j == CHOOSE x \in closes : TRUE
             IN  IF i < j /\ marks \subseteq {j + 1}
                 THEN [valid |-> TRUE,
                       pre |-> Classes(SubSeq(src, 1, i - 1)),
                       grp |-> Classes(SubSeq(src, i + 1, j - 1)),
                       post |-> Classes(SubSeq(src, (IF marks = {} THEN j + 1 ELSE j + 2), Len(src))),
                       groups |-> 1,
                       optional |-> marks # {}]
                 ELSE NoRegex
        ELSE NoRegex

MatchSeq(classes, text, p) ==
    /\ p + Len(classes) - 1 <= Len(text)
    /\ \A i \in 1..Len(classes) : text[p + i - 1] \in classes[i]

\* A match object: span [start, end) and groups(), Nothing for a group that
\* did not take part in the match.  found = FALSE: no match at p.
MatchAt(rx, text, p) ==
    LET full == rx.pre \o rx.grp \o rx.post
        skip == rx.pre \o rx.post
        g == p + Len(rx.pre)
    IN  IF MatchSeq(full, text, p)
        THEN [found |-> TRUE, start |-> p, end |-> p + Len(full),
              groups |-> IF rx.groups = 1
                         THEN <<Some(SubSeq(text, g, g + Len(rx.grp) - 1))>>
                         ELSE <<>>]
        ELSE IF rx.optional /\ MatchSeq(skip, text, p)
        THEN [found |-> TRUE, start |-> p, end |-> p + Len(skip), groups |-> <<Nothing>>]
        ELSE [found |-> FALSE, start |-> p, end |-> p, groups |-> <<>>]

\* regex.finditer(text): the non-overlapping matches, scanning left to right.
RECURSIVE FindIter(_, _, _)
FindIter(rx, text, p) ==
    IF p > Len(text) + 1 THEN <<>>
    ELSE LET m == MatchAt(rx, text, p)
         IN  IF ~m.found THEN FindIter(rx, text, p + 1)
             ELSE <<m>> \o FindIter(rx, text, IF m.end > m.start THEN m.end ELSE p + 1)

Group0(text, m) == SubSeq(text, m.start, m.end - 1)

-----------------------------------------------------------------------------
(* enrich_clinical_facts.py.  A dict of attributes is a function from the   *)
(* keys it holds to optional strings; a pattern's "attributes" and a        *)
(* question's "clinical_entities" are optional (null or missing in JSON).   *)

EmptyDict == <<>>

SetItem(d, k, v) == (k :> v) @@ d

\* load_patterns: every item gets its compiled regex, or the whole load raises.
load_patterns(data) ==
    IF \E i \in 1..Len(data) : ~Compile(data[i].pattern).valid
    THEN [raised |-> TRUE, patterns |-> <<>>]
    ELSE [raised |-> FALSE,
          patterns |-> [i \in 1..Len(data) |->
            [pattern |-> data[i].pattern, type |-> data[i].type, label |-> data[i].label,
             attributes |-> data[i].attributes, regex |-> Compile(data[i].pattern)]]]

\* question.get("clinical_entities", []) or []
ExistingEntities(q) == IF q.clinical_entities = Nothing THEN <<>> ELSE q.clinical_entities[1]

\* dict(pattern.get("attributes") or {})
CopyAttributes(template) == IF template = Nothing THEN EmptyDict ELSE template[1]

\* The pattern's own dict after the write to the copy: untouched.
TemplateAfterMatch(template, attributes) == template

Attributes(pattern, m) ==
    LET attributes == CopyAttributes(pattern.attributes)
    IN  IF pattern.type = "timeline" /\ m.groups # <<>>
        THEN SetItem(attributes, "value", m.groups[1])
        ELSE attributes

\* The inner loop as it would be if a pattern gave one entity however often it
\* matches.
MatchLoopFirstOnly(pi, ms, text, acc) ==
    IF ms = <<>> THEN acc
    ELSE [entities |-> Append(acc.entities,
                              [type |-> acc.patterns[pi].type, value |-> acc.patterns[pi].label,
                               text_span |-> Group0(text, Head(ms)),
                               attributes |-> Attributes(acc.patterns[pi], Head(ms))]),
          origin |-> Append(acc.origin, <<pi, Head(ms).start>>),
          patterns |-> acc.patterns]

RECURSIVE MatchLoop(_, _, _, _)
MatchLoop(pi, ms, text, acc) ==
    IF ms = <<>> THEN acc
    ELSE LET pattern == acc.patterns[pi]
             match == Head(ms)
             attributes == Attributes(pattern, match)
             entity == [type |-> pattern.type, value |-> pattern.label,
                        text_span |-> Group0(text, match), attributes |-> attributes]
         IN  MatchLoop(pi, Tail(ms), text,
                 [entities |-> Append(acc.entities, entity),
                  origin |-> Append(acc.origin, <<pi, match.start>>),
                  patterns |-> [acc.patterns EXCEPT ![pi].attributes =
                                    TemplateAfterMatch(pattern.attributes, attributes)]])

RECURSIVE PatternLoop(_, _, _)
PatternLoop(pi, text, acc) ==
    IF pi > Len(acc.patterns) THEN acc
    ELSE PatternLoop(pi + 1, text,
             MatchLoop(pi, FindIter(acc.patterns[pi].regex, text, 1), text, acc))

\* The call as it would be if it rebuilt clinical_entities instead of extending
\* the list it reads.
enrich_question_rebuilding(q, pats) ==
    LET r == PatternLoop(1, q.stem, [entities |-> <<>>, origin |-> <<>>, patterns |-> pats])
    IN  [question |-> [q EXCEPT !.clinical_entities = Some(r.entities)],
         patterns |-> r.patterns,
         origin |-> r.origin]

enrich_question(q, pats) ==
    LET r == PatternLoop(1, q.stem, [entities |-> ExistingEntities(q), origin |-> <<>>, patterns |-> pats])
    IN  [question |-> [q EXCEPT !.clinical_entities = Some(r.entities)],
         patterns |-> r.patterns,
         origin |-> r.origin]

-----------------------------------------------------------------------------
(* parse_questions.py *)

Pregunta == <<"p", "r", "e", "g", "u", "n", "t", "a">>

RespuestaCorrecta == <<"r", "e", "s", "p", "u", "e", "s", "t", "a", " ", "c", "o", "r", "r", "e", "c", "t", "a">>

\* The alternatives of META_RE's key group, in the order the regex tries them.
MetaKeys == <<<<"AACUTE", "r", "e", "a">>,
              <<"A", "r", "e", "a">>,
              <<"T", "e", "m", "a">>,
              <<"S", "u", "b", "t", "e", "m", "a">>,
              <<"S", "u", "b", "t", "e", "m", "a", " ", "e", "s", "p", "e", "c", "iacute", "f", "i", "c", "o">>,
              <<"S", "u", "b", "t", "e", "m", "a", " ", "e", "s", "p", "e", "c", "i", "f", "i", "c", "o">>>>

KeyAreaAcc == Lower(MetaKeys[1])

KeyArea == Lower(MetaKeys[2])

KeyTema == Lower(MetaKeys[3])

KeySubtema == Lower(MetaKeys[4])

KeyEspecificoAcc == Lower(MetaKeys[5])

KeyEspecifico == Lower(MetaKeys[6])

AsciiUpper == {UpperLetters[i] : i \in 1..26}

AsciiLetters == AsciiUpper \cup {LowerLetters[i] : i \in 1..26}

\* normalize_spaces: re.sub(r"\s+", " ", text).strip()
normalize_spaces(text) == Join(<<" ">>, SplitWS(text))

\* OPTION_RE.match(line): ^([A-Z])\)\s*(.+)$ on a line without line breaks.
OptionMatch(line) ==
    LET rest == From(line, 3 + SpanIn(line, 3, Spaces))
    IN  IF Len(line) >= 2 /\ line[1] \in AsciiUpper /\ line[2] = ")" /\ rest # <<>>
        THEN [found |-> TRUE, id |-> <<line[1]>>, text |-> rest]
        ELSE [found |-> FALSE, id |-> <<>>, text |-> <<>>]

\* META_RE.match(line), IGNORECASE: the first alternative followed by ":" wins.
MetaMatch(line) ==
    LET fits(i) == StartsWith(Lower(line), Lower(MetaKeys[i]) \o <<":">>)
        hits == {i \in 1..Len(MetaKeys) : fits(i)}
    IN  IF hits = {} THEN [found |-> FALSE, key |-> <<>>, value |-> <<>>]
        ELSE LET i == CHOOSE x \in hits : \A y \in hits : x <= y
                 n == Len(MetaKeys[i])
                 value == From(line, n + 2 + SpanIn(line, n + 2, Spaces))
             IN  IF value = <<>> THEN [found |-> FALSE, key |-> <<>>, value |-> <<>>]
                 ELSE [found |-> TRUE, key |-> SubSeq(line, 1, n), value |-> value]

NoHeader == [found |-> FALSE, number |-> <<>>, label |-> <<>>]

\* The label and what follows it: [^)]+ from position d + 1, then "):".
HeaderLabel(line, b, c, d) ==
    IF /\ d <= Len(line) /\ line[d] = "("
       /\ SpanNotIn(line, d + 1, {")"}) >= 1
       /\ d + 2 + SpanNotIn(line, d + 1, {")"}) <= Len(line)
       /\ line[d + 1 + SpanNotIn(line, d + 1, {")"})] = ")"
       /\ line[d + 2 + SpanNotIn(line, d + 1, {")"})] = ":"
    THEN [found |-> TRUE, number |-> SubSeq(line, b, c - 1),
          label |-> SubSeq(line, d + 1, d + SpanNotIn(line, d + 1, {")"}))]
    ELSE NoHeader

\* The number from position b on: \d+ then \s* up to the parenthesis.
HeaderNumber(line, b, nd) ==
    IF nd >= 1 THEN HeaderLabel(line, b, b + nd, b + nd + SpanIn(line, b + nd, Spaces)) ELSE NoHeader

\* The marker is read; \s+ from position a on.
HeaderSpaces(line, a, ws) ==
    IF ws >= 1 THEN HeaderNumber(line, a + ws, SpanIn(line, a + ws, Range(Digits))) ELSE NoHeader

\* HEADER_RE.match(line), IGNORECASE:
\*   Pregunta\s+(?P<number>\d+)\s*\((?P<label>[^)]+)\):
HeaderMatch(line) ==
    IF StartsWith(Lower(line), Pregunta)
    THEN HeaderSpaces(line, Len(Pregunta) + 1, SpanIn(line, Len(Pregunta) + 1, Spaces))
    ELSE NoHeader

\* The derivation as it would be without the fallback to tokens[-1]: the last
\* token is always taken off the label.
HeaderFieldsNoFallback(number, label, tokens, last) ==
    [raised |-> FALSE,
     number |-> number,
     exam |-> Strip(IF last.ok THEN Join(<<" ">>, SubSeq(tokens, 1, Len(tokens) - 1)) ELSE label),
     year |-> IF last.ok THEN Some(last.value) ELSE Nothing]

\* year and exam from the label's tokens and int(tokens[-1]).
HeaderFields(number, label, tokens, last) ==
    [raised |-> FALSE,
     number |-> number,
     exam |-> Strip(IF last.ok
                    THEN (IF Len(tokens) > 1
                          THEN Join(<<" ">>, SubSeq(tokens, 1, Len(tokens) - 1))
                          ELSE tokens[Len(tokens)])
                    ELSE label),
     year |-> IF last.ok THEN Some(last.value) ELSE Nothing]

HeaderTokens(number, label, tokens) ==
    HeaderFields(number, label, tokens,
                 IF tokens = <<>> THEN [ok |-> FALSE, value |-> 0] ELSE IntParse(tokens[Len(tokens)]))

\* The header as it would be read if a line that HEADER_RE does not match were
\* tolerated.
HeaderOfLenient(match) ==
    IF ~match.found
    THEN [raised |-> FALSE, number |-> 0, exam |-> <<>>, year |-> Nothing]
    ELSE HeaderTokens(DigitsToInt(match.number), Strip(match.label), SplitWS(Strip(match.label)))

HeaderOf(match) ==
    IF ~match.found
    THEN [raised |-> TRUE, number |-> 0, exam |-> <<>>, year |-> Nothing]
    ELSE HeaderTokens(DigitsToInt(match.number), Strip(match.label), SplitWS(Strip(match.label)))

\* parse_header returns (number, exam, year) or raises ValueError.
parse_header(line) == HeaderOf(HeaderMatch(line))

\* The filter as it would be if blank lines stayed in the block.
KeepEveryLine(ln) == TRUE

KeepLine(ln) == Strip(ln) # <<>> \/ StartsWith(ln, <<"P">> \o Tail(Pregunta))

RECURSIVE RStripAll(_)
RStripAll(ls) == IF ls = <<>> THEN <<>> ELSE <<RStrip(Head(ls))>> \o RStripAll(Tail(ls))

\* The lines parse_chunk works on: blank lines dropped, the rest right-stripped.
ChunkLines(text) == RStripAll(SelectSeq(SplitLines(text), KeepLine))

IsHeaderLine(ln) == StartsWith(Lower(ln), Pregunta)

IsAnswerLine(ln) == StartsWith(Lower(ln), RespuestaCorrecta)

\* The least index of a non-empty set of indices.
FirstIn(S) == CHOOSE i \in S : \A j \in S : i <= j

\* Index of the line next(...) returns for the header.
FirstHeaderLine(lines) == FirstIn({i \in 1..Len(lines) : IsHeaderLine(lines[i])})

\* Index of the line next(...) returns for the answer.
FirstAnswerLine(lines) == FirstIn({i \in 1..Len(lines) : IsAnswerLine(lines[i])})

\* The metadata loop: meta and idx when it breaks (idx is 1-based here).
RECURSIVE MetaLoop(_, _, _)
MetaLoop(lines, idx0, meta) ==
    IF idx0 > Len(lines) THEN [meta |-> meta, idx |-> idx0]
    ELSE LET meta_match == MetaMatch(Strip(lines[idx0]))
         IN  IF ~meta_match.found THEN [meta |-> meta, idx |-> idx0]
             ELSE MetaLoop(lines, idx0 + 1,
                           SetItem(meta, Lower(meta_match.key), Strip(meta_match.value)))

\* "saltar linea en blanco si existe"
RECURSIVE SkipBlank(_, _)
SkipBlank(lines, idx0) ==
    IF idx0 <= Len(lines) /\ Strip(lines[idx0]) = <<>> THEN SkipBlank(lines, idx0 + 1) ELSE idx0

\* The stem loop: the lines up to the first option line.
RECURSIVE StemLoop(_, _, _)
StemLoop(lines, idx0, stem_lines) ==
    IF idx0 <= Len(lines) /\ ~OptionMatch(Strip(lines[idx0])).found
    THEN StemLoop(lines, idx0 + 1, Append(stem_lines, lines[idx0]))
    ELSE [stem_lines |-> stem_lines, idx |-> idx0]

\* The options loop: one AnswerOption per option line, up to the answer line.
RECURSIVE OptionLoop(_, _, _)
OptionLoop(lines, idx0, options) ==
    IF idx0 > Len(lines) THEN options
    ELSE LET line == Strip(lines[idx0])
             opt_match == OptionMatch(line)
         IN  IF IsAnswerLine(line) THEN options
             ELSE OptionLoop(lines, idx0 + 1,
                     IF opt_match.found
                     THEN Append(options, [id |-> opt_match.id, text |-> Strip(opt_match.text),
                                           linked_entity |-> Nothing])
                     ELSE options)

NoAnswer == [found |-> FALSE, key |-> <<>>, text |-> <<>>]

AnswerLead == RespuestaCorrecta \o <<":">>

\* Position of the answer letter if the regex matches from position p, else 0.
AnswerKeyAt(line, p, k) ==
    IF /\ StartsWith(Lower(From(line, p)), AnswerLead)
       /\ k + 1 <= Len(line)
       /\ line[k] \in AsciiLetters /\ line[k + 1] = ")"
       /\ k + 2 + SpanIn(line, k + 2, Spaces) <= Len(line)
    THEN k ELSE 0

AnswerAt(line, p) == AnswerKeyAt(line, p, p + Len(AnswerLead) + SpanIn(line, p + Len(AnswerLead), Spaces))

AnswerFrom(line, k) ==
    [found |-> TRUE, key |-> <<line[k]>>, text |-> From(line, k + 2 + SpanIn(line, k + 2, Spaces))]

AnswerFirst(line, hits) ==
    IF hits = {} THEN NoAnswer
    ELSE AnswerFrom(line, AnswerAt(line, CHOOSE x \in hits : \A y \in hits : x <= y))

\* re.search(r"Respuesta correcta:\s*([A-Z])\)\s*(.+)$", answer_line, re.IGNORECASE)
AnswerSearch(line) == AnswerFirst(line, {p \in 1..Len(line) : AnswerAt(line, p) > 0})

Get(meta, key) == IF key \in DOMAIN meta THEN Some(meta[key]) ELSE Nothing

\* meta.get(key, "")
GetOrEmpty(meta, key) == IF key \in DOMAIN meta THEN meta[key] ELSE <<>>

\* a or b on optional strings
Or(a, b) == IF a # Nothing /\ a[1] # <<>> THEN a ELSE b

\* f"{(exam or 'EXAM').replace(' ', '').upper()}-{year or 'XXXX'}-{number:02d}"
QuestionId(exam, year, number) ==
    LET name == IF exam # <<>> THEN exam ELSE <<"E", "X", "A", "M">>
        yy == IF year # Nothing /\ year[1] # 0 THEN IntToStr(year[1]) ELSE <<"X", "X", "X", "X">>
        nn == IF number < 10 THEN <<"0">> \o NatToStr(number) ELSE NatToStr(number)
    IN  Upper(SelectSeq(name, LAMBDA c : c # " ")) \o <<"-">> \o yy \o <<"-">> \o nn

Raised(error) == [raised |-> TRUE, error |-> error, question |-> Nothing]

RECURSIVE StripAll(_)
StripAll(ls) == IF ls = <<>> THEN <<>> ELSE <<Strip(Head(ls))>> \o StripAll(Tail(ls))

\* The two subtopic values, normalised, without the empty string.
Tags(meta) ==
    {normalize_spaces(GetOrEmpty(meta, KeySubtema)),
     normalize_spaces(IF KeyEspecificoAcc \in DOMAIN meta
                      THEN meta[KeyEspecificoAcc]
                      ELSE GetOrEmpty(meta, KeyEspecifico))} \ {<<>>}

\* The Question(...) constructor call.
MakeQuestion(header_line, header, meta, stem, options, answer) ==
    [raised |-> FALSE, error |-> "",
     question |-> Some(
       [id |-> QuestionId(header.exam, header.year, header.number),
        source_exam |-> header.exam,
        year |-> header.year,
        number |-> header.number,
        domain |-> Or(Get(meta, KeyAreaAcc), Get(meta, KeyArea)),
        topic |-> Get(meta, KeyTema),
        subtopic |-> Get(meta, KeySubtema),
        focus |-> Or(Get(meta, KeyEspecificoAcc), Get(meta, KeyEspecifico)),
        stem |-> stem,
        options |-> options,
        answer_key |-> IF answer.found THEN Upper(answer.key) ELSE <<>>,
        answer_text |-> IF answer.found THEN Strip(answer.text) ELSE <<>>,
        clinical_entities |-> Some(<<>>),
        reasoning_tags |-> Sorted(Tags(meta)),
        metadata |-> [raw_header |-> header_line]])]

AnswerOf(lines) ==
    IF \E i \in 1..Len(lines) : IsAnswerLine(lines[i])
    THEN AnswerSearch(lines[FirstAnswerLine(lines)])
    ELSE NoAnswer

\* From the stem loop's result on.
AfterStem(lines, h, header, meta, st) ==
    MakeQuestion(lines[h], header, meta,
                 Strip(Join(<<NL>>, StripAll(st.stem_lines))),
                 OptionLoop(lines, st.idx, <<>>),
                 AnswerOf(lines))

\* From the metadata loop's result on.
AfterMeta(lines, h, header, m) ==
    AfterStem(lines, h, header, m.meta, StemLoop(lines, SkipBlank(lines, m.idx), <<>>))

\* From parse_header's result on.
AfterHeaderLine(lines, h, header) ==
    IF header.raised
    THEN Raised("No se pudo interpretar el encabezado")
    ELSE AfterMeta(lines, h, header, MetaLoop(lines, h + 1, EmptyDict))

ParseLines(lines) ==
    IF ~\E i \in 1..Len(lines) : IsHeaderLine(lines[i])
    THEN Raised("Bloque sin encabezado de pregunta")
    ELSE AfterHeaderLine(lines, FirstHeaderLine(lines),
                         parse_header(lines[FirstHeaderLine(lines)]))

parse_chunk(text) == ParseLines(ChunkLines(text))

MinDashes == 10

Dash == "U2500"

\* Length of the match of \n+<dash>{10,}\n+ that starts at position p; 0 if none.
DelimiterAt(text, p) ==
    LET n1 == SpanIn(text, p, {NL})
        d == SpanIn(text, p + n1, {Dash})
        n2 == SpanIn(text, p + n1 + d, {NL})
    IN  IF n1 >= 1 /\ d >= MinDashes /\ n2 >= 1 THEN n1 + d + n2 ELSE 0

\* The positions from start on where the delimiter regex matches.
DelimitersFrom(text, start) == {p \in start..Len(text) : DelimiterAt(text, p) > 0}

\* re.split(delimiter, text): the piece that begins at start ends at the next
\* match, and the scan resumes behind that match.
RECURSIVE ReSplit(_, _)
ReSplit(text, start) ==
    IF DelimitersFrom(text, start) = {}
    THEN <<SubSeq(text, start, Len(text))>>
    ELSE <<SubSeq(text, start, FirstIn(DelimitersFrom(text, start)) - 1)>>
         \o ReSplit(text, FirstIn(DelimitersFrom(text, start))
                          + DelimiterAt(text, FirstIn(DelimitersFrom(text, start))))

\* The segmenter as it would be if the pieces were kept untrimmed.
RawChunksUntrimmed(text) == SelectSeq(ReSplit(text, 1), LAMBDA piece : Strip(piece) # <<>>)

\* raw_chunks of parse_file: the stripped pieces that are not empty.
RawChunks(text) == StripAll(SelectSeq(ReSplit(text, 1), LAMBDA piece : Strip(piece) # <<>>))

-----------------------------------------------------------------------------
(* The annotator called repeatedly on one question object *)

MaxStem == 3

MaxPatterns == 2

MaxCalls == 2

StemAlphabet == {"f", "F", "3"}

Text(t) == Some(t)

\* The entries a pattern file is drawn from.
PatSymptom == [pattern |-> <<"f">>, type |-> "symptom", label |-> "fever", attributes |-> Nothing]

PatTimeline == [pattern |-> <<"(", "\\d", ")", "f">>, type |-> "timeline", label |-> "duration",
                attributes |-> Some(("unit" :> Text(<<"d">>)))]

PatOnset == [pattern |-> <<"(", "\\d", ")", "?", "f">>, type |-> "timeline", label |-> "onset",
             attributes |-> Some(("value" :> Text(<<"x">>)))]

PatFinding == [pattern |-> <<"(", "f", ")", "3">>, type |-> "finding", label |-> "sign",
               attributes |-> Some(("value" :> Text(<<"y">>)))]

PatternEntries == {PatSymptom, PatTimeline, PatOnset, PatFinding}

StoredEntity == [type |-> "symptom", value |-> "stored", text_span |-> <<"f">>, attributes |-> EmptyDict]

StoredEntities == {Nothing, Some(<<>>), Some(<<StoredEntity>>)}

SegIdle == blocks = <<>> /\ delims = <<>> /\ segmented = <<>>

RunIdle == pc = "idle" /\ input = Nothing /\ idx = 0 /\ lists = Nothing /\ output = Nothing

ParseIdle == chunk = <<>> /\ result = Nothing /\ given = Nothing

EnrichIdle ==
    /\ question = Nothing /\ patterns = <<>> /\ calls = 0
    /\ prevEntities = <<>> /\ origin = <<>> /\ initial = Nothing

EnrichInit ==
    /\ \E stem \in SeqsUpTo(StemAlphabet, MaxStem), ce \in StoredEntities :
          question = [id |-> "ENARM-2023-07", stem |-> stem, answer_key |-> "B",
                      clinical_entities |-> ce]
    /\ \E data \in SeqsUpTo(PatternEntries, MaxPatterns) :
          patterns = load_patterns(data).patterns
    /\ calls = 0
    /\ prevEntities = ExistingEntities(question)
    /\ origin = <<>>
    /\ initial = [question |-> question, patterns |-> patterns]

\* One call enrich_question(question, patterns) on the same question object.
EnrichQuestion ==
    /\ calls < MaxCalls
    /\ LET r == enrich_question(question, patterns)
       IN  /\ question' = r.question
           /\ patterns' = r.patterns
           /\ origin' = r.origin
    /\ prevEntities' = ExistingEntities(question)
    /\ calls' = calls + 1
    /\ UNCHANGED <<initial, parseVars, runVars, segVars>>

EnrichNext == EnrichQuestion

InitEnrich == EnrichInit /\ ParseIdle /\ RunIdle /\ SegIdle

SpecEnrich == InitEnrich /\ [][EnrichNext]_vars

-----------------------------------------------------------------------------
(* Claims about the annotator *)

Entities == ExistingEntities(question)

\* What one call appends to a question without entities.
SingleCall ==
    ExistingEntities(enrich_question([initial.question EXCEPT !.clinical_entities = Some(<<>>)],
                                     initial.patterns).question)

\* The entities the latest call appended.
Appended == SubSeq(Entities, Len(prevEntities) + 1, Len(Entities))

\* C1: enrich_question only appends to clinical_entities: the sequence a call
\* read is a prefix of the sequence it leaves, and after k calls on a question
\* that started without entities the sequence is k copies of what one call
\* appends, so it is k times as long.
C1_AppendOnly ==
    /\ IsPrefix(prevEntities, Entities)
    /\ Entities = ExistingEntities(initial.question) \o Repeat(SingleCall, calls)
    /\ ExistingEntities(initial.question) = <<>> => Len(Entities) = calls * Len(SingleCall)

C1_Witness ==
    /\ calls = 2
    /\ ExistingEntities(initial.question) = <<>>
    /\ Len(SingleCall) >= 2
    /\ Len(Entities) = 2 * Len(SingleCall)

\* Lexicographic order on <<pattern index, match start>>.
Before(a, b) == a[1] < b[1] \/ (a[1] = b[1] /\ a[2] < b[2])

MatchesOf(pi) == FindIter(initial.patterns[pi].regex, initial.question.stem, 1)

RECURSIVE SumLen(_, _)
SumLen(pi, n) == IF pi > n THEN 0 ELSE Len(MatchesOf(pi)) + SumLen(pi + 1, n)

\* C2: the entities one call appends are ordered by pattern declaration order
\* and, within a pattern, by match position; every match of every pattern
\* yields exactly one entity, carrying that pattern's type and label and the
\* matched text.
C2_Order ==
    calls >= 1 =>
        /\ Len(Appended) = Len(origin)
        /\ \A i, j \in 1..Len(origin) : i < j => Before(origin[i], origin[j])
        /\ Len(origin) = SumLen(1, Len(initial.patterns))
        /\ \A pi \in 1..Len(initial.patterns) : \A k \in 1..Len(MatchesOf(pi)) :
              \E i \in 1..Len(origin) :
                 /\ origin[i] = <<pi, MatchesOf(pi)[k].start>>
                 /\ Appended[i].type = initial.patterns[pi].type
                 /\ Appended[i].value = initial.patterns[pi].label
                 /\ Appended[i].text_span = Group0(initial.question.stem, MatchesOf(pi)[k])

\* Two patterns matched, the first twice, one of its matches equal in text to
\* another: nothing was merged.
C2_Witness ==
    /\ calls >= 1
    /\ \E i, j, k \in 1..Len(origin) :
          /\ i < j /\ j < k
          /\ origin[i][1] = origin[j][1] /\ origin[j][1] < origin[k][1]
          /\ Appended[i].text_span = Appended[j].text_span

\* The match that produced the i-th appended entity.
MatchOfAppended(i) ==
    LET ms == MatchesOf(origin[i][1])
    IN  ms[CHOOSE k \in 1..Len(ms) : ms[k].start = origin[i][2]]

\* C10: each entity's attributes is a fresh copy of its pattern's template,
\* with "value" set to the first captured group's text when the type is
\* timeline and the match captured a group, and equal to the template
\* otherwise; no template changes, and no field of the question other than
\* clinical_entities changes.
C10_FreshAttributes ==
    /\ patterns = initial.patterns
    /\ [question EXCEPT !.clinical_entities = Nothing]
         = [initial.question EXCEPT !.clinical_entities = Nothing]
    /\ calls >= 1 => \A i \in 1..Len(origin) :
          LET pattern == initial.patterns[origin[i][1]]
              groups == MatchOfAppended(i).groups
              template == CopyAttributes(pattern.attributes)
          IN  Appended[i].attributes =
                 IF pattern.type = "timeline" /\ \E g \in 1..Len(groups) : groups[g] # Nothing
                 THEN SetItem(template, "value", groups[1])
                 ELSE template

-----------------------------------------------------------------------------
(* parse_chunk applied to one block *)

MaxLabel == 3

MaxBody == 3

\* Pieces a header label is written from.
LabelPieces == {<<"E", "N", "A", "R", "M">>, <<"2", "3">>, <<"0">>, <<"-">>, <<" ">>, <<"x">>}

NumberTexts == {<<"7">>, <<"1", "2", "3">>}

HeaderLine(number, label) ==
    <<"P", "r", "e", "g", "u", "n", "t", "a">> \o <<" ">> \o number \o <<" ", "(">> \o label \o <<")", ":">>

GoodHeader == HeaderLine(<<"7">>, <<"E", "N", "A", "R", "M", " ", "2", "0", "2", "3">>)

\* Lines that begin with the header marker but are not of the header's shape,
\* and lines that only look like a header.
OddHeaders == {<<"P", "r", "e", "g", "u", "n", "t", "a", " ", "s", "i", "n", " ", "n", "u", "m", "e", "r", "o">>,
               <<"p", "r", "e", "g", "u", "n", "t", "a", " ", "7", " ", "(", "E", "N", "A", "R", "M", " ", "2", "0", "2", "3", ")">>,
               <<"P", "r", "e", "g", "u", "n", "t", "a", "s", " ", "7", " ", "(", "E", "N", "A", "R", "M", " ", "2", "0", "2", "3", ")", ":">>,
               <<"P", "R", "E", "G", "U", "N", "T", "A", " ", " ", "7", "(", "E", "N", "A", "R", "M", ")", ":">>,
               <<" ", "P", "r", "e", "g", "u", "n", "t", "a", " ", "7", " ", "(", "E", "N", "A", "R", "M", ")", ":">>,
               <<"P", "r", "e", "g", "u", "n", "t", "a", " ", "7", " ", "(", "A", ")", " ", "(", "B", ")", ":">>}

\* Lines a block body is written from.
BodyLines == {<<"AACUTE", "r", "e", "a", ":", " ", "C", "a", "r", "d", "i", "o">>,
              <<"t", "e", "m", "a", ":", " ", "H", "T", "A">>,
              <<"N", "o", "t", "a", ":", " ", "x">>,
              <<>>,
              <<"T", "e", "x", "t", "o">>,
              <<" ", "S", "u", "b", "t", "e", "m", "a", ":", " ", "s">>,
              <<"A", ")", " ", "F", "o", "o">>,
              <<"A", ")", " ", "B", "a", "r">>,
              <<"B", ")", " ", "B", "a", "z">>,
              <<"R", "e", "s", "p", "u", "e", "s", "t", "a", " ", "c", "o", "r", "r", "e", "c", "t", "a", ":", " ", "b", ")", " ", "B", "a", "z">>}

FixedBody == <<<<"T", "e", "x", "t", "o">>, <<"A", ")", " ", "F", "o", "o">>, <<"B", ")", " ", "B", "a", "z">>>>

Lines(ls) == Join(<<NL>>, ls)

ParseInit ==
    /\ \/ \E label \in SeqsUpTo(LabelPieces, MaxLabel), number \in NumberTexts :
             /\ chunk = Lines(<<HeaderLine(number, Concat(label))>> \o FixedBody)
             /\ given = Some([label |-> Concat(label), number |-> number])
       \/ \E body \in SeqsUpTo(BodyLines, MaxBody) :
             /\ chunk = Lines(<<GoodHeader>> \o body)
             /\ given = Nothing
       \/ \E odd \in OddHeaders, tail \in {<<>>, <<GoodHeader>>} :
             /\ chunk = Lines(<<odd>> \o tail \o FixedBody)
             /\ given = Nothing
       \/ /\ chunk \in {Lines(FixedBody), <<>>, Lines(<<<<"T", "e", "x", "t", "o">>, GoodHeader>> \o FixedBody)}
          /\ given = Nothing
    /\ result = Nothing

ParseChunk ==
    /\ result = Nothing
    /\ result' = Some(parse_chunk(chunk))
    /\ UNCHANGED <<chunk, given, enrichVars, runVars, segVars>>

ParseNext == ParseChunk

InitParse == ParseInit /\ EnrichIdle /\ RunIdle /\ SegIdle

SpecParse == InitParse /\ [][ParseNext]_vars

-----------------------------------------------------------------------------
(* Claims about parse_chunk *)

Returned == result # Nothing /\ ~result[1].raised

Failed == result # Nothing /\ result[1].raised

Q == result[1].question[1]

RawLines == SplitLines(chunk)

HasMarkerLine == \E i \in 1..Len(RawLines) : StartsWith(Lower(RawLines[i]), Pregunta)

FirstMarkerLine == RawLines[FirstIn({i \in 1..Len(RawLines) : StartsWith(Lower(RawLines[i]), Pregunta)})]

\* C4 as claimed: parse_chunk fails only when no line of the block begins
\* with the header marker; a block with such a line always yields a Question.
C4_FailsOnlyWithoutMarker == result # Nothing => (Failed <=> ~HasMarkerLine)

\* C4: parse_chunk fails exactly when no line of the block begins with the
\* header marker or the first such line is not of the header's shape
\* <marker> <number> (<label>): ; every block whose first marker line has
\* that shape yields a Question, whatever else is irregular in it.
C4_FailsWithoutHeader ==
    result # Nothing =>
        /\ Failed <=> (~HasMarkerLine \/ ~HeaderMatch(FirstMarkerLine).found)
        /\ (given # Nothing /\ given[1].label # <<>>) => Returned
        /\ (Failed /\ HasMarkerLine) => result[1].error = "No se pudo interpretar el encabezado"

C4_Witness ==
    /\ Failed
    /\ HasMarkerLine
    /\ \E i \in 1..Len(RawLines) : OptionMatch(RawLines[i]).found

Pad2(n) == IF n < 10 THEN <<"0">> \o NatToStr(n) ELSE NatToStr(n)

\* C5: id is EXAM-YEAR-NN: the exam name uppercased without spaces, the
\* decimal year or "XXXX" exactly when the year is absent, and the number
\* zero-padded to two digits.
C5_IdFormat ==
    Returned =>
        Q.id = Upper(SelectSeq(Q.source_exam, LAMBDA c : c # " ")) \o <<"-">>
               \o (IF Q.year = Nothing THEN <<"X", "X", "X", "X">> ELSE IntToStr(Q.year[1]))
               \o <<"-">> \o Pad2(Q.number)

GivenTokens == SplitWS(given[1].label)

LastToken == GivenTokens[Len(GivenTokens)]

LastIsInt == GivenTokens # <<>> /\ IntParse(LastToken).ok

ButLast == Join(<<" ">>, SubSeq(GivenTokens, 1, Len(GivenTokens) - 1))

\* C6 as claimed: when the label's last token is an integer, year is that
\* integer and source_exam is the label without that token, for every label;
\* otherwise source_exam is the whole label and year is absent.
C6_LastTokenRemoved ==
    (Returned /\ given # Nothing) =>
        IF LastIsInt
        THEN Q.year = Some(IntParse(LastToken).value) /\ Q.source_exam = ButLast
        ELSE Q.year = Nothing /\ Q.source_exam = Strip(given[1].label)

\* C6: when the label's last token is an integer, year is that integer and
\* source_exam is the other tokens joined by single spaces, except that a
\* label of a single integer token keeps that token as source_exam;
\* otherwise source_exam is the whole (stripped) label and year is absent.
C6_HeaderDerivation ==
    (Returned /\ given # Nothing) =>
        /\ Q.number = DigitsToInt(given[1].number)
        /\ IF LastIsInt
           THEN /\ Q.year = Some(IntParse(LastToken).value)
                /\ Q.source_exam = IF Len(GivenTokens) = 1 THEN LastToken ELSE ButLast
           ELSE Q.year = Nothing /\ Q.source_exam = Strip(given[1].label)

C6_Witness ==
    /\ Returned /\ given # Nothing
    /\ Len(GivenTokens) = 1 /\ LastIsInt
    /\ Q.year = Some(23)
    /\ Q.source_exam = <<"2", "3">>

\* C7: the options of a returned Question are in document order and their
\* letter identifiers are pairwise distinct.
C7_DistinctOptionIds ==
    Returned =>
        \A i, j \in 1..Len(Q.options) : i # j => Q.options[i].id # Q.options[j].id

\* The raw lines of the block after its header line, blank ones included.
AfterHeader == From(RawLines, FirstIn({i \in 1..Len(RawLines) : StartsWith(Lower(RawLines[i]), Pregunta)}) + 1)

IsBlank(ln) == Strip(ln) = <<>>

MetaShaped(ln) == MetaMatch(Strip(ln)).found

\* Number of leading lines of ls that are metadata lines.
RECURSIVE MetaPrefix(_)
MetaPrefix(ls) == IF ls # <<>> /\ MetaShaped(Head(ls)) THEN 1 + MetaPrefix(Tail(ls)) ELSE 0

\* The Question field a metadata line is recorded in.
FieldOf(ln) ==
    LET key == Lower(MetaMatch(Strip(ln)).key)
    IN  IF key \in {KeyAreaAcc, KeyArea} THEN "domain"
        ELSE IF key = KeyTema THEN "topic"
        ELSE IF key = KeySubtema THEN "subtopic"
        ELSE "focus"

Fields == {"domain", "topic", "subtopic", "focus"}

Recorded(f) == Q[f] # Nothing

StemLines == SplitLines(Q.stem)

\* Number of leading lines of ls that are not option lines.
RECURSIVE StemPrefix(_)
StemPrefix(ls) ==
    IF ls # <<>> /\ ~OptionMatch(Strip(Head(ls))).found THEN 1 + StemPrefix(Tail(ls)) ELSE 0

\* C9 as claimed: metadata is consumed from the line after the header up to
\* the first line that is not a metadata line, a blank line included; a
\* metadata-shaped line after that line is not recorded and is in the stem.
C9_StopsAtFirstOtherLine ==
    Returned =>
        LET k == MetaPrefix(AfterHeader)
        IN  /\ \A f \in Fields : Recorded(f) <=> \E i \in 1..k : FieldOf(AfterHeader[i]) = f
            /\ \A i \in (k + 1)..Len(AfterHeader) :
                  MetaShaped(AfterHeader[i]) =>
                      \E j \in 1..Len(StemLines) : StemLines[j] = Strip(AfterHeader[i])

\* C9: blank lines are dropped before the scan and do not end it.  Metadata is
\* consumed from the first non-blank line after the header up to the first
\* non-blank line that is not a metadata line; a metadata-shaped line after
\* that one is never recorded; the stem is exactly the stripped non-blank
\* lines from there up to the first option line, so such a line is in the
\* stem when it precedes the first option line and is dropped otherwise.
C9_MetadataPrefixScan ==
    Returned =>
        LET nb == SelectSeq(AfterHeader, LAMBDA ln : ~IsBlank(ln))
            k == MetaPrefix(nb)
            rest == From(nb, k + 1)
            n == StemPrefix(rest)
        IN  /\ \A f \in Fields : Recorded(f) <=> \E i \in 1..k : FieldOf(nb[i]) = f
            /\ StemLines = [i \in 1..n |-> Strip(rest[i])]

\* A metadata line was consumed although a blank line precedes it.
C9_Witness ==
    /\ Returned
    /\ Len(AfterHeader) >= 3
    /\ MetaShaped(AfterHeader[1]) /\ IsBlank(AfterHeader[2]) /\ MetaShaped(AfterHeader[3])
    /\ Recorded(FieldOf(AfterHeader[3]))
    /\ FieldOf(AfterHeader[3]) # FieldOf(AfterHeader[1])

-----------------------------------------------------------------------------
(* The segmenter applied to a document written from blocks and delimiters *)

MaxBlocks == 3

\* Blocks: not empty after trimming, and without a delimiter line.
BlockTexts == {<<"a">>,
               <<" ", "b", " ", "\n">>,
               <<"c", "\n", "\n", "d">>,
               <<"e", "\n", "U2500", "U2500", "U2500">>}

DashLine(n) == Repeat(<<Dash>>, n)

\* Delimiters: a line of at least MinDashes dashes, blank lines around it.
Delimiters == {<<NL>> \o DashLine(MinDashes) \o <<NL>>,
               <<NL, NL>> \o DashLine(MinDashes + 1) \o <<NL, NL>>,
               <<NL, " ", NL>> \o DashLine(MinDashes) \o <<NL, "\t", NL>>,
               <<NL>> \o DashLine(MinDashes + 2) \o <<NL, NL, NL>>}

\* block 1, delimiter 1, block 2, ...; a last delimiter may close the document.
RECURSIVE Document(_, _)
Document(bs, ds) ==
    IF bs = <<>> THEN <<>>
    ELSE Head(bs) \o (IF ds = <<>> THEN <<>> ELSE Head(ds) \o Document(Tail(bs), Tail(ds)))

SegInit ==
    /\ \E n \in 1..MaxBlocks :
          /\ blocks \in [1..n -> BlockTexts]
          /\ delims \in [1..(n - 1) -> Delimiters] \cup [1..n -> {<<NL>> \o DashLine(MinDashes) \o <<NL>>}]
    /\ segmented = Nothing

Segment ==
    /\ segmented = Nothing
    /\ segmented' = Some(RawChunks(Document(blocks, delims)))
    /\ UNCHANGED <<blocks, delims, enrichVars, parseVars, runVars>>

SegNext == Segment

InitSegment == SegInit /\ EnrichIdle /\ ParseIdle /\ RunIdle

SpecSegment == InitSegment /\ [][SegNext]_vars

\* C8: a document written from N blocks, each non-empty after trimming and
\* without a delimiter line, joined by valid delimiters, is segmented into
\* exactly those N blocks, trimmed, in document order; the empty piece behind
\* a closing delimiter is dropped.
C8_RoundTrip ==
    segmented # Nothing =>
        /\ Len(segmented[1]) = Len(blocks)
        /\ \A i \in 1..Len(blocks) : segmented[1][i] = Strip(blocks[i])

C8_Witness ==
    /\ segmented # Nothing
    /\ Len(blocks) = 3 /\ Len(delims) = 3
    /\ blocks[1] # blocks[2] /\ blocks[2] # blocks[3]
    /\ Strip(blocks[2]) # blocks[2]
    /\ segmented[1] = <<Strip(blocks[1]), Strip(blocks[2]), Strip(blocks[3])>>

-----------------------------------------------------------------------------
(* main() of the two scripts, one step per loop iteration *)

MaxChunks == 2

MaxData == 2

MaxQuestions == 2

\* Blocks of an input document: two well-formed ones, one without a header
\* line, one whose header line is not of the header's shape.
ChunkA == Lines(<<GoodHeader>> \o FixedBody)

ChunkB == Lines(<<HeaderLine(<<"8">>, <<"E", "N", "A", "R", "M">>), <<"O", "t", "r", "o", " ", "t", "e", "x", "t", "o">>>>)

ChunkNoHeader == Lines(FixedBody)

ChunkOddHeader == Lines(<<<<"P", "r", "e", "g", "u", "n", "t", "a", " ", "s", "i", "n", " ", "n", "u", "m", "e", "r", "o">>>> \o FixedBody)

RunChunks == {ChunkA, ChunkB, ChunkNoHeader, ChunkOddHeader}

\* Pattern entries whose source does not compile.
PatUnclosed == [pattern |-> <<"(", "f">>, type |-> "symptom", label |-> "bad", attributes |-> Nothing]

PatDangling == [pattern |-> <<"?", "f">>, type |-> "symptom", label |-> "bad", attributes |-> Nothing]

RunEntries == {PatSymptom, PatOnset, PatUnclosed, PatDangling}

StoredQuestion(stem) ==
    [id |-> "ENARM-2023-07", stem |-> stem, answer_key |-> "B", clinical_entities |-> Some(<<>>)]

RunQuestions == {StoredQuestion(<<"f">>), StoredQuestion(<<"3", "f", "F">>)}

NoLists == [chunks |-> <<>>, questions |-> <<>>, patterns |-> <<>>, enriched |-> <<>>]

RunInit ==
    /\ \/ /\ \E cs \in SeqsUpTo(RunChunks, MaxChunks) :
                input = [script |-> "parse_questions",
                         text |-> Join(<<NL>> \o DashLine(MinDashes) \o <<NL>>, cs),
                         questions |-> <<>>, data |-> <<>>]
          /\ pc = "parse_file"
       \/ /\ \E qs \in SeqsUpTo(RunQuestions, MaxQuestions), data \in SeqsUpTo(RunEntries, MaxData) :
                input = [script |-> "enrich_clinical_facts", text |-> <<>>,
                         questions |-> qs, data |-> data]
          /\ pc = "load_patterns"
    /\ idx = 0
    /\ lists = NoLists
    /\ output = Nothing

\* parse_file: read the document and split it into raw_chunks.
SplitDocument ==
    /\ pc = "parse_file"
    /\ lists' = [lists EXCEPT !.chunks = RawChunks(input.text)]
    /\ pc' = "parse_chunks"
    /\ UNCHANGED <<input, idx, output, enrichVars, parseVars, segVars>>

\* The loop as it would be if a block that fails to parse were skipped.
AfterParseSkipping(r) ==
    /\ pc' = pc
    /\ idx' = idx + 1
    /\ lists' = IF r.raised THEN lists ELSE [lists EXCEPT !.questions = Append(@, r.question[1])]

\* What the loop does with parse_chunk's result r.
AfterParse(r) ==
    /\ pc' = IF r.raised THEN "aborted" ELSE pc
    /\ idx' = IF r.raised THEN idx ELSE idx + 1
    /\ lists' = IF r.raised THEN lists ELSE [lists EXCEPT !.questions = Append(@, r.question[1])]

\* One iteration of [parse_chunk(chunk) for chunk in raw_chunks]; a ValueError
\* leaves main().
ParseNextChunk ==
    /\ pc = "parse_chunks"
    /\ idx < Len(lists.chunks)
    /\ AfterParse(parse_chunk(lists.chunks[idx + 1]))
    /\ UNCHANGED <<input, output, enrichVars, parseVars, segVars>>

\* questions_to_dicts, mkdir and write_text of parse_questions.main.
WriteQuestions ==
    /\ pc = "parse_chunks"
    /\ idx = Len(lists.chunks)
    /\ output' = Some(lists.questions)
    /\ pc' = "done"
    /\ UNCHANGED <<input, idx, lists, enrichVars, parseVars, segVars>>

\* What load_patterns' loop does with the compiled regex of item.
AfterCompile(item, regex) ==
    /\ pc' = IF regex.valid THEN pc ELSE "aborted"
    /\ idx' = IF regex.valid THEN idx + 1 ELSE idx
    /\ lists' = IF regex.valid
                THEN [lists EXCEPT !.patterns = Append(@,
                         [pattern |-> item.pattern, type |-> item.type, label |-> item.label,
                          attributes |-> item.attributes, regex |-> regex])]
                ELSE lists

\* One iteration of load_patterns' loop; re.error leaves process().
CompileNextPattern ==
    /\ pc = "load_patterns"
    /\ idx < Len(input.data)
    /\ AfterCompile(input.data[idx + 1], Compile(input.data[idx + 1].pattern))
    /\ UNCHANGED <<input, output, enrichVars, parseVars, segVars>>

\* load_patterns returns; the comprehension over the questions starts.
PatternsLoaded ==
    /\ pc = "load_patterns"
    /\ idx = Len(input.data)
    /\ pc' = "enrich"
    /\ idx' = 0
    /\ UNCHANGED <<input, lists, output, enrichVars, parseVars, segVars>>

AfterEnrich(r) == lists' = [lists EXCEPT !.enriched = Append(@, r.question), !.patterns = r.patterns]

\* One iteration of [enrich_question(dict(q), patterns) for q in questions].
EnrichNextQuestion ==
    /\ pc = "enrich"
    /\ idx < Len(input.questions)
    /\ AfterEnrich(enrich_question(input.questions[idx + 1], lists.patterns))
    /\ idx' = idx + 1
    /\ UNCHANGED <<pc, input, output, enrichVars, parseVars, segVars>>

\* mkdir and write_text of process().
WriteEnriched ==
    /\ pc = "enrich"
    /\ idx = Len(input.questions)
    /\ output' = Some(lists.enriched)
    /\ pc' = "done"
    /\ UNCHANGED <<input, idx, lists, enrichVars, parseVars, segVars>>

RunNext ==
    \/ SplitDocument
    \/ ParseNextChunk
    \/ WriteQuestions
    \/ CompileNextPattern
    \/ PatternsLoaded
    \/ EnrichNextQuestion
    \/ WriteEnriched

InitRun == RunInit /\ EnrichIdle /\ ParseIdle /\ SegIdle

SpecRun == InitRun /\ [][RunNext]_vars

-----------------------------------------------------------------------------
(* Claims about the two runs *)

ParseRun == input.script = "parse_questions"

EnrichRun == input.script = "enrich_clinical_facts"

\* The blocks the segmenter hands to parse_chunk.
RunBlocks == RawChunks(input.text)

SomeBlockFails == \E block \in Range(RunBlocks) : parse_chunk(block).raised

SomePatternFails == \E i \in 1..Len(input.data) : ~Compile(input.data[i].pattern).valid

Written == output # Nothing

\* C3: output is all-or-nothing in both runs. In the parse run a block that
\* fails to parse halts processing and the output file is never written; in the
\* enrich run a pattern that fails to compile means no question is annotated
\* and the output file is never written. The output file is written only after
\* every block, or every pattern and every question, was processed without
\* failure, and it then holds one entry per block or per question.
C3_AllOrNothing ==
    /\ pc = "aborted" => ~Written
    /\ ParseRun /\ SomeBlockFails => ~Written
    /\ EnrichRun /\ SomePatternFails => ~Written /\ lists.enriched = <<>>
    /\ Written /\ ParseRun =>
          /\ pc = "done"
          /\ ~SomeBlockFails
          /\ Len(output[1]) = Len(RunBlocks)
          /\ \A i \in 1..Len(RunBlocks) : \A block \in {RunBlocks[i]} :
                output[1][i] = parse_chunk(block).question[1]
    /\ Written /\ EnrichRun =>
          /\ pc = "done"
          /\ ~SomePatternFails
          /\ Len(lists.patterns) = Len(input.data)
          /\ Len(output[1]) = Len(input.questions)
          /\ \A i \in 1..Len(input.questions) : output[1][i].id = input.questions[i].id

\* A parse run that stopped at its second block after parsing the first.
C3_Witness ==
    /\ ParseRun
    /\ pc = "aborted"
    /\ Len(RunBlocks) = 2
    /\ Len(lists.questions) = 1
    /\ \E block \in {RunBlocks[2]} : parse_chunk(block).raised
    /\ ~Written

=============================================================================
